---- MODULE Spec2Model ----
(***************************************************************************)
(* Model of the record-linkage engine of video_game_pipeline:              *)
(* DataMerger (src/processors/data_merger.py) together with the parts of   *)
(* DataCleaner (src/processors/data_cleaner.py) its inputs come from.      *)
(*                                                                         *)
(* Representation.  A Python str is a sequence of one-character strings.   *)
(* A missing string cell (None / NaN) is the sentinel None, a missing      *)
(* numeric cell is the sentinel NaNum.  A similarity or a match score is   *)
(* an exact fraction <<numerator, denominator>>; the floats of the code    *)
(* are compared through Gt / RatEq.  combined_score is kept in tenths.     *)
(***************************************************************************)
EXTENDS Integers, Sequences, FiniteSets, TLC

\* ------------------------------------------------------------------------
\* Bounds of the model
\* ------------------------------------------------------------------------
MaxLeft == 2

MaxRight == 2

\* ------------------------------------------------------------------------
\* Cells
\* ------------------------------------------------------------------------
None == <<"NaN">>

NaNum == -1

IsStr(v) == v # None

NotNa(v) == v # None

NumNotNa(n) == n # NaNum

Digits == {"0", "1", "2", "3", "4", "5", "6", "7", "8", "9"}

Whitespace == {" "}

DigitValue(c) ==
    CASE c = "0" -> 0 [] c = "1" -> 1 [] c = "2" -> 2 [] c = "3" -> 3
      [] c = "4" -> 4 [] c = "5" -> 5 [] c = "6" -> 6 [] c = "7" -> 7
      [] c = "8" -> 8 [] c = "9" -> 9

\* str.lower() on one character
LowerChar(c) ==
    CASE c = "A" -> "a" [] c = "B" -> "b" [] c = "C" -> "c"
      [] c = "D" -> "d" [] c = "E" -> "e" [] c = "F" -> "f"
      [] c = "G" -> "g" [] c = "H" -> "h" [] c = "I" -> "i"
      [] c = "J" -> "j" [] c = "K" -> "k" [] c = "L" -> "l"
      [] c = "M" -> "m" [] c = "N" -> "n" [] c = "O" -> "o"
      [] c = "P" -> "p" [] c = "Q" -> "q" [] c = "R" -> "r"
      [] c = "S" -> "s" [] c = "T" -> "t" [] c = "U" -> "u"
      [] c = "V" -> "v" [] c = "W" -> "w" [] c = "X" -> "x"
      [] c = "Y" -> "y" [] c = "Z" -> "z"
      [] OTHER -> c

\* variant of str.lower() that leaves the letter case as it is
LowerKeepingCase(s) == s

\* str.lower()
Lower(s) == [i \in 1..Len(s) |-> LowerChar(s[i])]

Min(a, b) == IF a < b THEN a ELSE b

\* length of the longest prefix of s made of characters of set cs
RECURSIVE PrefixRun(_, _)
PrefixRun(s, cs) ==
    IF s # <<>> /\ Head(s) \in cs THEN 1 + PrefixRun(Tail(s), cs) ELSE 0

\* length of the longest suffix of s made of characters of set cs
RECURSIVE SuffixRun(_, _)
SuffixRun(s, cs) ==
    IF s # <<>> /\ s[Len(s)] \in cs
    THEN 1 + SuffixRun(SubSeq(s, 1, Len(s) - 1), cs) ELSE 0

Drop(s, n) == SubSeq(s, n + 1, Len(s))

\* str.strip()
Strip(s) ==
    LET l == Drop(s, PrefixRun(s, Whitespace))
    IN  SubSeq(l, 1, Len(l) - SuffixRun(l, Whitespace))

\* re.sub(r'^\d+\.\s*', '', title): a leading run of one or more digits, a
\* period and the whitespace after it are removed; anything else is kept
StripNumbering(s) ==
    LET d == PrefixRun(s, Digits)
    IN  IF d >= 1 /\ Len(s) > d /\ s[d + 1] = "."
        THEN LET rest == Drop(s, d + 1)
             IN  Drop(rest, PrefixRun(rest, Whitespace))
        ELSE s

clean_game_title(title) ==
    IF ~IsStr(title) THEN title ELSE Strip(StripNumbering(title))

\* ------------------------------------------------------------------------
\* difflib.SequenceMatcher(None, a, b).ratio() (no junk; autojunk needs
\* 200 characters): Ratcliff/Obershelp matching blocks
\* ------------------------------------------------------------------------
\* the blocks a[i..i+k-1] = b[j..j+k-1] inside a[alo..ahi-1], b[blo..bhi-1]
CommonBlocks(a, b, alo, ahi, blo, bhi) ==
    { t \in (alo..(ahi - 1)) \X (blo..(bhi - 1)) \X (1..Min(ahi - alo, bhi - blo)) :
        /\ t[1] + t[3] <= ahi
        /\ t[2] + t[3] <= bhi
        /\ \A d \in 0..(t[3] - 1) : a[t[1] + d] = b[t[2] + d] }

\* find_longest_match: the longest block, of those the one starting
\* earliest in a, of those the one starting earliest in b
find_longest_match(a, b, alo, ahi, blo, bhi) ==
    LET bs == CommonBlocks(a, b, alo, ahi, blo, bhi)
    IN  IF bs = {} THEN <<alo, blo, 0>>
        ELSE CHOOSE t \in bs : \A u \in bs :
               \/ t[3] > u[3]
               \/ t[3] = u[3] /\ t[1] < u[1]
               \/ t[3] = u[3] /\ t[1] = u[1] /\ t[2] <= u[2]

\* sum of the sizes of get_matching_blocks()
RECURSIVE MatchedChars(_, _, _, _, _, _)
MatchedChars(a, b, alo, ahi, blo, bhi) ==
    LET m == find_longest_match(a, b, alo, ahi, blo, bhi)
    IN  IF m[3] = 0 THEN 0
        ELSE m[3]
             + (IF alo < m[1] /\ blo < m[2]
                THEN MatchedChars(a, b, alo, m[1], blo, m[2]) ELSE 0)
             + (IF m[1] + m[3] < ahi /\ m[2] + m[3] < bhi
                THEN MatchedChars(a, b, m[1] + m[3], ahi, m[2] + m[3], bhi) ELSE 0)

\* ratio() = 2.0 * matches / (len(a) + len(b)), 1.0 for two empty strings
Ratio(a, b) ==
    IF Len(a) + Len(b) = 0 THEN <<1, 1>>
    ELSE <<2 * MatchedChars(a, b, 1, Len(a) + 1, 1, Len(b) + 1), Len(a) + Len(b)>>

string_similarity(a, b) ==
    IF ~IsStr(a) \/ ~IsStr(b) THEN <<0, 1>> ELSE Ratio(Lower(a), Lower(b))

\* comparison of two fractions with positive denominators
Gt(p, q) == p[1] * q[2] > q[1] * p[2]

RatEq(p, q) == p[1] * q[2] = q[1] * p[2]

\* ------------------------------------------------------------------------
\* DataCleaner.clean_steam_data: review_summary -> review_score_approx
\* ------------------------------------------------------------------------
VeryPositive == <<"V", "e", "r", "y", " ", "P", "o", "s", "i", "t", "i", "v", "e">>

Mixed == <<"M", "i", "x", "e", "d">>

FewReviews == <<"3", " ", "u", "s", "e", "r", " ", "r", "e", "v", "i", "e", "w", "s">>

NotAvailable == <<"N", "/", "A">>

\* review_map.get(str(x).strip(), None), for the labels the model's inputs use
review_map(label) ==
    CASE label = VeryPositive -> 85
      [] label = Mixed -> 50
      [] OTHER -> NaNum

review_score_approx(review_summary) ==
    IF ~IsStr(review_summary) THEN NaNum ELSE review_map(Strip(review_summary))

\* ------------------------------------------------------------------------
\* Input tables: the dataframes clean_data hands to merge_datasets
\* ------------------------------------------------------------------------
DigitChars == <<"1", "2", "3", "4", "5", "6", "7", "8", "9">>

\* every record of a source has its own URL
Url(source, i) == <<source, "/", DigitChars[i]>>

\* (title, developer, metascore) of the Metacritic records the model draws from
McChoices ==
    { <<<<"a", "b", "c">>, <<"x">>, 80>>,
      <<<<"1", ".", " ", "a", "b", "c">>, <<"x">>, NaNum>>,
      <<<<"a", "b", "c", "d">>, NotAvailable, 80>>,
      <<<<"a", "b", "c">>, <<"y">>, 80>>,
      <<<<"z", "z">>, None, 80>>,
      <<<<" ">>, <<"x">>, 80>>,
      <<None, <<"x">>, 80>> }

\* (title, developer, review_summary) of the Steam records the model draws from
SteamChoices ==
    { <<<<"a", "b", "c">>, <<"x">>, VeryPositive>>,
      <<<<"A", "b", "c">>, <<"x">>, FewReviews>>,
      <<<<"a", "b", "c", "d">>, None, Mixed>>,
      <<<<"2", ".", "a", "b", "c">>, <<"y">>, None>>,
      <<<<"z", "z">>, <<"y">>, NotAvailable>>,
      <<<<"7", ".", " ">>, <<"x">>, VeryPositive>>,
      <<None, <<"x">>, VeryPositive>> }

McRecord(c, i) ==
    [ title |-> c[1], url |-> Url("mc", i), metascore |-> c[3],
      platform |-> <<"P", "C">>, release_date |-> <<"2", "0", "2", "0">>,
      developer |-> c[2], publisher |-> <<"p">>, genres |-> <<"g">> ]

SteamRecord(c, i) ==
    [ title |-> c[1], app_url |-> Url("st", i), price |-> <<"$", "5">>,
      discount |-> <<"0", "%">>, review_summary |-> c[3],
      review_count |-> <<"9">>, release_date |-> <<"2", "0", "2", "1">>,
      developer |-> c[2], publisher |-> <<"q">>, tags |-> <<"t">>,
      review_score_approx |-> review_score_approx(c[3]) ]

McTables ==
    UNION { { [i \in 1..n |-> McRecord(f[i], i)] : f \in [1..n -> McChoices] } :
            n \in 0..MaxLeft }

SteamTables ==
    UNION { { [i \in 1..n |-> SteamRecord(f[i], i)] : f \in [1..n -> SteamChoices] } :
            n \in 0..MaxRight }

\* ------------------------------------------------------------------------
\* State of one call of DataMerger.merge_datasets
\* ------------------------------------------------------------------------
VARIABLES
    metacritic_df,   \* the left input table (argument, never modified)
    steam_df,        \* the right input table (argument, never modified)
    metacritic,      \* working copy: cleaned, filtered, renamed
    steam,           \* working copy: cleaned, filtered, renamed
    merged_df,       \* rows of the merged dataframe
    merged_cols,     \* its columns ({} for the empty pd.DataFrame())
    idx,             \* rows of metacritic the matching loop has processed
    pc,              \* position in merge_datasets
    exception        \* the exception the call ended with, "" if none

mergeVars == <<metacritic_df, steam_df, metacritic, steam, merged_df, merged_cols,
               idx, pc, exception>>

\* State of one call of a pure function (clean_game_title, _extract_price,
\* _standardize_date, string_similarity)
VARIABLES
    arg,             \* the argument(s) of the call
    ret,             \* the value returned, None before the call returns
    called           \* has the call returned

fnVars == <<arg, ret, called>>

\* no pure-function call is modelled
FnIdle == arg = None /\ ret = None /\ called = FALSE

\* State of one run of the two scrapers followed by the cleaner
VARIABLES
    games_list,        \* all_games of get_game_list, then the argument of get_game_details
    detailed_games,    \* the list get_game_details builds
    game_titles,       \* the titles raw_steam_data reads from the Metacritic CSV
    steam_games,       \* the list process_game_list builds
    outcomes,          \* what happened to each request so far, in order
    raw_metacritic_csv, \* the file MetacriticScraper.save_to_csv wrote
    raw_steam_csv,     \* the file SteamScraper.save_to_csv wrote
    net_log,           \* requests.get and time.sleep calls, in order
    scrape_pc,         \* position in the run
    scrape_exception   \* the exception the run ended with, <<>> if none

scrapeVars == <<games_list, detailed_games, game_titles, steam_games, outcomes,
                raw_metacritic_csv, raw_steam_csv, net_log, scrape_pc,
                scrape_exception>>

\* a CSV file: the names of its header and the number of its rows
NoCsv == [fieldnames |-> {}, rows |-> 0]

\* no scraper run is modelled
ScrapeIdle ==
    /\ games_list = <<>> /\ detailed_games = <<>> /\ game_titles = <<>>
    /\ steam_games = <<>> /\ outcomes = <<>>
    /\ raw_metacritic_csv = NoCsv /\ raw_steam_csv = NoCsv
    /\ net_log = <<>> /\ scrape_pc = "idle" /\ scrape_exception = <<>>

\* State of one validation of the final file
VARIABLES
    final_file,      \* the file at the path given to the validation
    op_config,       \* the run configuration (context.op_config)
    op_result,       \* what validate_data ended with, "" before it has run
    asset_result     \* what the validation inside video_games_dataset ended with

valVars == <<final_file, op_config, op_result, asset_result>>

NoFile == [kind |-> "missing", columns |-> {}, rows |-> 0, matched |-> 0]

\* no validation is modelled
ValIdle ==
    /\ final_file = NoFile /\ op_config = <<>>
    /\ op_result = "" /\ asset_result = ""

\* State of the asset graph: the stored materializations and the current run
VARIABLES
    stored,          \* the assets that have a stored output
    selection,       \* the assets the current run materializes, {} between runs
    step,            \* the state of each asset's step in the current run
    started,         \* how often each asset's step started in the current run
    dataset_pc,      \* position inside video_games_dataset while it runs
    written,         \* has the current run written the merged file
    runs             \* the number of runs launched so far

pipeVars == <<stored, selection, step, started, dataset_pc, written, runs>>

AssetKeys ==
    {"raw_metacritic_data", "raw_steam_data", "cleaned_data",
     "video_games_dataset"}

\* no run has been launched
PipeIdle ==
    /\ stored = {} /\ selection = {}
    /\ step = [a \in AssetKeys |-> "pending"]
    /\ started = [a \in AssetKeys |-> 0]
    /\ dataset_pc = "" /\ written = FALSE /\ runs = 0

\* merge_datasets is not running
MergeIdle ==
    /\ metacritic_df = <<>> /\ steam_df = <<>> /\ metacritic = <<>> /\ steam = <<>>
    /\ merged_df = <<>> /\ merged_cols = {} /\ idx = 0 /\ pc = "idle"
    /\ exception = ""

\* the parts of the state outside group g ("merge", "fn", "scrape",
\* "validate", "pipeline") are idle
IdleOutside(g) ==
    /\ IF g = "merge" THEN TRUE ELSE MergeIdle
    /\ IF g = "fn" THEN TRUE ELSE FnIdle
    /\ IF g = "scrape" THEN TRUE ELSE ScrapeIdle
    /\ IF g = "validate" THEN TRUE ELSE ValIdle
    /\ IF g = "pipeline" THEN TRUE ELSE PipeIdle

\* a step of group g leaves the other parts of the state as they are
UnchangedOutside(g) ==
    /\ IF g = "merge" THEN TRUE ELSE UNCHANGED mergeVars
    /\ IF g = "fn" THEN TRUE ELSE UNCHANGED fnVars
    /\ IF g = "scrape" THEN TRUE ELSE UNCHANGED scrapeVars
    /\ IF g = "validate" THEN TRUE ELSE UNCHANGED valVars
    /\ IF g = "pipeline" THEN TRUE ELSE UNCHANGED pipeVars

vars == <<mergeVars, fnVars, scrapeVars, valVars, pipeVars>>

\* the 0.7 of "match_score > 0.7"
Threshold == <<7, 10>>

RowColumns ==
    { "game_title", "metacritic_url", "metascore", "platform", "release_date",
      "developer", "publisher", "genres", "steam_url", "price", "discount",
      "steam_review_summary", "steam_review_count", "steam_release_date",
      "steam_developer", "steam_publisher", "steam_tags", "match_confidence",
      "is_matched" }

\* title.notna() & (title != '')
HasTitle(title) == NotNa(title) /\ title # <<>>

\* df[df['title'].notna() & (df['title'] != '')]: the rows of df, in order,
\* that have a title
RECURSIVE RowsWithTitle(_)
RowsWithTitle(df) ==
    IF df = <<>> THEN <<>>
    ELSE LET front == RowsWithTitle(SubSeq(df, 1, Len(df) - 1))
             last == df[Len(df)]
         IN  IF HasTitle(last.title) THEN Append(front, last) ELSE front

\* variant of the row filter that yields the selected rows last to first
RECURSIVE RowsNotInReversed(_, _)
RowsNotInReversed(df, titles) ==
    IF df = <<>> THEN <<>>
    ELSE LET rest == RowsNotInReversed(SubSeq(df, 1, Len(df) - 1), titles)
             last == df[Len(df)]
         IN  IF last.game_title \notin titles THEN <<last>> \o rest ELSE rest

\* df[~df['game_title'].isin(titles)]: the rows of df, in order, whose
\* game_title is not in titles
RECURSIVE RowsNotIn(_, _)
RowsNotIn(df, titles) ==
    IF df = <<>> THEN <<>>
    ELSE LET front == RowsNotIn(SubSeq(df, 1, Len(df) - 1), titles)
             last == df[Len(df)]
         IN  IF last.game_title \notin titles THEN Append(front, last) ELSE front

\* lines 40-57: clean the titles, drop the rows without one, rename
PrepareMetacritic(df) ==
    LET cleaned == [i \in 1..Len(df) |->
                      [df[i] EXCEPT !.title = clean_game_title(df[i].title)]]
        kept == RowsWithTitle(cleaned)
    IN  [i \in 1..Len(kept) |->
           [ game_title |-> kept[i].title, metacritic_url |-> kept[i].url,
             metascore |-> kept[i].metascore, platform |-> kept[i].platform,
             release_date |-> kept[i].release_date,
             developer |-> kept[i].developer, publisher |-> kept[i].publisher,
             genres |-> kept[i].genres ]]

\* lines 41-70
PrepareSteam(df) ==
    LET cleaned == [i \in 1..Len(df) |->
                      [df[i] EXCEPT !.title = clean_game_title(df[i].title)]]
        kept == RowsWithTitle(cleaned)
    IN  [i \in 1..Len(kept) |->
           [ game_title |-> kept[i].title, steam_url |-> kept[i].app_url,
             price |-> kept[i].price, discount |-> kept[i].discount,
             steam_review_summary |-> kept[i].review_summary,
             steam_review_count |-> kept[i].review_count,
             steam_release_date |-> kept[i].release_date,
             steam_developer |-> kept[i].developer,
             steam_publisher |-> kept[i].publisher,
             steam_tags |-> kept[i].tags,
             review_score_approx |-> kept[i].review_score_approx ]]

\* variant of lines 87-97 with the weights exchanged: title_sim * 0.3 +
\* dev_sim * 0.7
match_score_developer_first(mc_game, steam_game) ==
    LET title_sim == string_similarity(mc_game.game_title, steam_game.game_title)
        mc_developer == mc_game.developer
        steam_developer == steam_game.steam_developer
    IN  IF /\ IsStr(mc_developer) /\ IsStr(steam_developer)
           /\ mc_developer # NotAvailable /\ steam_developer # NotAvailable
        THEN LET dev_sim == string_similarity(mc_developer, steam_developer)
             IN  << 3 * title_sim[1] * dev_sim[2] + 7 * dev_sim[1] * title_sim[2],
                    10 * title_sim[2] * dev_sim[2] >>
        ELSE title_sim

\* lines 87-97: the score of one (Metacritic, Steam) pair
match_score(mc_game, steam_game) ==
    LET title_sim == string_similarity(mc_game.game_title, steam_game.game_title)
        mc_developer == mc_game.developer
        steam_developer == steam_game.steam_developer
    IN  IF /\ IsStr(mc_developer) /\ IsStr(steam_developer)
           /\ mc_developer # NotAvailable /\ steam_developer # NotAvailable
        THEN LET dev_sim == string_similarity(mc_developer, steam_developer)
             IN  \* title_sim * 0.7 + dev_sim * 0.3
                 << 7 * title_sim[1] * dev_sim[2] + 3 * dev_sim[1] * title_sim[2],
                    10 * title_sim[2] * dev_sim[2] >>
        ELSE title_sim

\* variant of line 100 with ">=" against the best so far: of several rows
\* with the best score the last one wins
IsBetterLastTie(score, best_score) ==
    ~Gt(best_score, score) /\ Gt(score, Threshold)

\* variant of line 100 with ">= 0.7": a score of exactly 0.7 is accepted
IsBetterNonStrict(score, best_score) ==
    Gt(score, best_score) /\ ~Gt(Threshold, score)

\* line 100: does this score replace the best one so far
IsBetter(score, best_score) == Gt(score, best_score) /\ Gt(score, Threshold)

\* lines 83-102: the scan of the Steam rows from row j on; best_match is the
\* index of the best row so far, 0 for None
RECURSIVE ScanSteam(_, _, _, _, _)
ScanSteam(mc_game, st, j, best_match, best_score) ==
    IF j > Len(st) THEN <<best_match, best_score>>
    ELSE LET score == match_score(mc_game, st[j])
         IN  IF IsBetter(score, best_score)
             THEN ScanSteam(mc_game, st, j + 1, j, score)
             ELSE ScanSteam(mc_game, st, j + 1, best_match, best_score)

\* variant of the scan that consumes a Steam row once it is matched: rows
\* already carried by a merged row are skipped
RECURSIVE ScanSteamExclusive(_, _, _, _, _)
ScanSteamExclusive(mc_game, st, j, best_match, best_score) ==
    IF j > Len(st) THEN <<best_match, best_score>>
    ELSE LET score == match_score(mc_game, st[j])
             taken == \E k \in 1..Len(merged_df) :
                         merged_df[k].steam_url = st[j].steam_url
         IN  IF ~taken /\ IsBetter(score, best_score)
             THEN ScanSteamExclusive(mc_game, st, j + 1, j, score)
             ELSE ScanSteamExclusive(mc_game, st, j + 1, best_match, best_score)

BestMatchExclusive(mc_game, st) == ScanSteamExclusive(mc_game, st, 1, 0, <<0, 1>>)

\* lines 77-102: best_match and best_score of one Metacritic row
BestMatch(mc_game, st) == ScanSteam(mc_game, st, 1, 0, <<0, 1>>)

\* lines 107-127
MergedRow(mc_game, best_match, best_score) ==
    [ game_title |-> mc_game.game_title,
      metacritic_url |-> mc_game.metacritic_url,
      metascore |-> mc_game.metascore,
      platform |-> mc_game.platform,
      release_date |-> mc_game.release_date,
      developer |-> mc_game.developer,
      publisher |-> mc_game.publisher,
      genres |-> mc_game.genres,
      steam_url |-> best_match.steam_url,
      price |-> best_match.price,
      discount |-> best_match.discount,
      steam_review_summary |-> best_match.steam_review_summary,
      steam_review_count |-> best_match.steam_review_count,
      steam_release_date |-> best_match.steam_release_date,
      steam_developer |-> best_match.steam_developer,
      steam_publisher |-> best_match.steam_publisher,
      steam_tags |-> best_match.steam_tags,
      match_confidence |-> best_score,
      is_matched |-> TRUE,
      steam_review_score |-> NaNum,
      combined_score |-> NaNum ]

\* lines 136-156
UnmatchedMcRow(mc_game) ==
    [ game_title |-> mc_game.game_title,
      metacritic_url |-> mc_game.metacritic_url,
      metascore |-> mc_game.metascore,
      platform |-> mc_game.platform,
      release_date |-> mc_game.release_date,
      developer |-> mc_game.developer,
      publisher |-> mc_game.publisher,
      genres |-> mc_game.genres,
      steam_url |-> None,
      price |-> None,
      discount |-> None,
      steam_review_summary |-> None,
      steam_review_count |-> None,
      steam_release_date |-> None,
      steam_developer |-> None,
      steam_publisher |-> None,
      steam_tags |-> None,
      match_confidence |-> <<0, 1>>,
      is_matched |-> FALSE,
      steam_review_score |-> NaNum,
      combined_score |-> NaNum ]

\* lines 165-185
UnmatchedSteamRow(steam_game) ==
    [ game_title |-> steam_game.game_title,
      metacritic_url |-> None,
      metascore |-> NaNum,
      platform |-> None,
      release_date |-> None,
      developer |-> None,
      publisher |-> None,
      genres |-> None,
      steam_url |-> steam_game.steam_url,
      price |-> steam_game.price,
      discount |-> steam_game.discount,
      steam_review_summary |-> steam_game.steam_review_summary,
      steam_review_count |-> steam_game.steam_review_count,
      steam_release_date |-> steam_game.steam_release_date,
      steam_developer |-> steam_game.steam_developer,
      steam_publisher |-> steam_game.steam_publisher,
      steam_tags |-> steam_game.steam_tags,
      match_confidence |-> <<0, 1>>,
      is_matched |-> FALSE,
      steam_review_score |-> NaNum,
      combined_score |-> NaNum ]

\* set(merged_df['game_title'])
TitlesOf(df) == { df[i].game_title : i \in 1..Len(df) }

\* value of a string of digits
RECURSIVE DigitsValue(_)
DigitsValue(ds) ==
    IF ds = <<>> THEN 0
    ELSE 10 * DigitsValue(SubSeq(ds, 1, Len(ds) - 1)) + DigitValue(ds[Len(ds)])

\* pd.to_numeric(summary.str.extract(r'(\d+)')[0], errors='coerce'): the
\* number written by the first run of digits of the string, NaN without one
RECURSIVE ExtractNumber(_)
ExtractNumber(str) ==
    IF str = <<>> THEN NaNum
    ELSE IF Head(str) \in Digits
         THEN DigitsValue(SubSeq(str, 1, PrefixRun(str, Digits)))
         ELSE ExtractNumber(Tail(str))

\* line 193
ScoreMask(r) ==
    r.is_matched /\ NumNotNa(r.metascore) /\ NotNa(r.steam_review_summary)

\* lines 198-201: the steam_review_score of a row of the mask
SteamReviewScore(r) == ExtractNumber(r.steam_review_summary)

\* variant of lines 203-206 that reads a missing score as 0 (fillna(0))
CombinedScoreNaNAsZero(metascore, steam_review_score) ==
    6 * (IF NumNotNa(metascore) THEN metascore ELSE 0)
    + 4 * (IF NumNotNa(steam_review_score) THEN steam_review_score ELSE 0)

\* lines 203-206, in tenths: metascore * 0.6 + steam_review_score * 0.4
CombinedScore(metascore, steam_review_score) ==
    IF NumNotNa(metascore) /\ NumNotNa(steam_review_score)
    THEN 6 * metascore + 4 * steam_review_score
    ELSE NaNum

\* ------------------------------------------------------------------------
\* merge_datasets, step by step
\* ------------------------------------------------------------------------
Init ==
    /\ metacritic_df \in McTables
    /\ steam_df \in SteamTables
    /\ metacritic = <<>>
    /\ steam = <<>>
    /\ merged_df = <<>>
    /\ merged_cols = {}
    /\ idx = 0
    /\ pc = "start"
    /\ exception = ""
    /\ IdleOutside("merge")

\* lines 36-73: copy, clean, filter, rename; merged_df = pd.DataFrame()
Prepare ==
    /\ pc = "start"
    /\ metacritic' = PrepareMetacritic(metacritic_df)
    /\ steam' = PrepareSteam(steam_df)
    /\ merged_df' = <<>>
    /\ merged_cols' = {}
    /\ idx' = 0
    /\ pc' = "match"
    /\ UNCHANGED <<metacritic_df, steam_df, exception>>
    /\ UnchangedOutside("merge")

\* lines 76-128: one iteration of the loop over the Metacritic rows
MatchGame ==
    /\ pc = "match"
    /\ idx < Len(metacritic)
    /\ LET mc_game == metacritic[idx + 1]
           best == BestMatch(mc_game, steam)
       IN  IF best[1] # 0
           THEN /\ merged_df' = Append(merged_df,
                                       MergedRow(mc_game, steam[best[1]], best[2]))
                /\ merged_cols' = merged_cols \cup RowColumns
           ELSE UNCHANGED <<merged_df, merged_cols>>
    /\ idx' = idx + 1
    /\ UNCHANGED <<metacritic_df, steam_df, metacritic, steam, pc, exception>>
    /\ UnchangedOutside("merge")

\* line 131 on a dataframe without columns: merged_df['game_title'] raises
RaiseKeyError ==
    /\ pc = "match"
    /\ idx = Len(metacritic)
    /\ "game_title" \notin merged_cols
    /\ pc' = "raised"
    /\ exception' = "KeyError"
    /\ UNCHANGED <<metacritic_df, steam_df, metacritic, steam, merged_df,
                   merged_cols, idx>>
    /\ UnchangedOutside("merge")

\* lines 131-157
AddUnmatchedMetacritic ==
    /\ pc = "match"
    /\ idx = Len(metacritic)
    /\ "game_title" \in merged_cols
    /\ LET matched_mc_titles == TitlesOf(merged_df)
           unmatched_mc == RowsNotIn(metacritic, matched_mc_titles)
       IN  merged_df' = merged_df \o
                        [i \in 1..Len(unmatched_mc) |-> UnmatchedMcRow(unmatched_mc[i])]
    /\ pc' = "unmatched_steam"
    /\ UNCHANGED <<metacritic_df, steam_df, metacritic, steam, merged_cols, idx,
                   exception>>
    /\ UnchangedOutside("merge")

\* lines 160-186
AddUnmatchedSteam ==
    /\ pc = "unmatched_steam"
    /\ LET matched_steam_titles == TitlesOf(merged_df)
           unmatched_steam == RowsNotIn(steam, matched_steam_titles)
       IN  merged_df' = merged_df \o
                        [i \in 1..Len(unmatched_steam) |->
                           UnmatchedSteamRow(unmatched_steam[i])]
    /\ pc' = "combine"
    /\ UNCHANGED <<metacritic_df, steam_df, metacritic, steam, merged_cols, idx,
                   exception>>
    /\ UnchangedOutside("merge")

\* lines 189-208: drop the rows without a title, add combined_score, return
CombineScores ==
    /\ pc = "combine"
    /\ LET titled == RowsNotIn(merged_df, {None, <<>>})
           any == \E i \in 1..Len(titled) : ScoreMask(titled[i])
       IN  /\ merged_df' =
                [i \in 1..Len(titled) |->
                   IF ScoreMask(titled[i])
                   THEN [titled[i] EXCEPT
                           !.steam_review_score = SteamReviewScore(titled[i]),
                           !.combined_score =
                               CombinedScore(titled[i].metascore,
                                             SteamReviewScore(titled[i]))]
                   ELSE titled[i]]
           /\ merged_cols' = merged_cols \cup {"combined_score"} \cup
                             (IF any THEN {"steam_review_score"} ELSE {})
    /\ pc' = "done"
    /\ UNCHANGED <<metacritic_df, steam_df, metacritic, steam, idx, exception>>
    /\ UnchangedOutside("merge")

Next ==
    \/ Prepare
    \/ MatchGame
    \/ RaiseKeyError
    \/ AddUnmatchedMetacritic
    \/ AddUnmatchedSteam
    \/ CombineScores

Spec == Init /\ [][Next]_vars

\* ------------------------------------------------------------------------
\* Vocabulary of the properties.  Records are told apart by their URLs.
\* ------------------------------------------------------------------------
Lefts == 1..Len(metacritic)

Rights == 1..Len(steam)

Rows == 1..Len(merged_df)

Returned == pc = "done"

Ended == pc \in {"done", "raised"}

Score(i, j) == match_score(metacritic[i], steam[j])

AboveThreshold(i, j) == Gt(Score(i, j), Threshold)

\* j has the highest score of all Steam rows for Metacritic row i, and no
\* earlier Steam row has that score
IsFirstBest(i, j) ==
    /\ \A k \in Rights : ~Gt(Score(i, k), Score(i, j))
    /\ \A k \in 1..(j - 1) : Gt(Score(i, j), Score(i, k))

\* the highest score of Metacritic row i exceeds the threshold
HasMatch(i) == \E j \in Rights : AboveThreshold(i, j)

MatchedPairs == { p \in Lefts \X Rights : IsFirstBest(p[1], p[2]) /\ HasMatch(p[1]) }

UnmatchedLeft == { i \in Lefts : ~HasMatch(i) }

UnmatchedRight == { j \in Rights : \A p \in MatchedPairs : p[2] # j }

RowsOfLeft(i) ==
    { k \in Rows : merged_df[k].metacritic_url = metacritic[i].metacritic_url }

RowsOfRight(j) ==
    { k \in Rows : merged_df[k].steam_url = steam[j].steam_url }

MatchedRowsOfLeft(i) == { k \in RowsOfLeft(i) : merged_df[k].is_matched }

\* row r carries the fields of Metacritic row m
CarriesLeft(r, m) ==
    /\ r.metacritic_url = m.metacritic_url /\ r.metascore = m.metascore
    /\ r.platform = m.platform /\ r.release_date = m.release_date
    /\ r.developer = m.developer /\ r.publisher = m.publisher
    /\ r.genres = m.genres

\* row r carries the fields of Steam row s
CarriesRight(r, s) ==
    /\ r.steam_url = s.steam_url /\ r.price = s.price /\ r.discount = s.discount
    /\ r.steam_review_summary = s.steam_review_summary
    /\ r.steam_review_count = s.steam_review_count
    /\ r.steam_release_date = s.steam_release_date
    /\ r.steam_developer = s.steam_developer
    /\ r.steam_publisher = s.steam_publisher
    /\ r.steam_tags = s.steam_tags

LeftFieldsNull(r) ==
    /\ r.metacritic_url = None /\ r.metascore = NaNum /\ r.platform = None
    /\ r.release_date = None /\ r.developer = None /\ r.publisher = None
    /\ r.genres = None

RightFieldsNull(r) ==
    /\ r.steam_url = None /\ r.price = None /\ r.discount = None
    /\ r.steam_review_summary = None /\ r.steam_review_count = None
    /\ r.steam_release_date = None /\ r.steam_developer = None
    /\ r.steam_publisher = None /\ r.steam_tags = None

Unmatched(r) == ~r.is_matched /\ RatEq(r.match_confidence, <<0, 1>>)

\* row r is the unmatched row of Metacritic row m
IsUnmatchedLeftRow(r, m) ==
    /\ Unmatched(r) /\ CarriesLeft(r, m) /\ RightFieldsNull(r)
    /\ r.game_title = m.game_title

\* row r is the unmatched row of Steam row s
IsUnmatchedRightRow(r, s) ==
    /\ Unmatched(r) /\ CarriesRight(r, s) /\ LeftFieldsNull(r)
    /\ r.game_title = s.game_title

\* ------------------------------------------------------------------------
\* C1 (as claimed): the returned table has |matchedPairs| + |unmatchedLeft|
\* + |unmatchedRight| rows, and every left and every right record with a
\* title is in exactly one of its rows.
\* ------------------------------------------------------------------------
C1_ReconciliationComplete ==
    Returned =>
        /\ Len(merged_df) = Cardinality(MatchedPairs) + Cardinality(UnmatchedLeft)
                              + Cardinality(UnmatchedRight)
        /\ \A i \in Lefts : Cardinality(RowsOfLeft(i)) = 1
        /\ \A j \in Rights : Cardinality(RowsOfRight(j)) = 1

\* ------------------------------------------------------------------------
\* C2 (as claimed): when no pair scores above the threshold the call returns
\* normally and every record with a title is a row with is_matched = false
\* and match_confidence = 0.
\* ------------------------------------------------------------------------
NoPairAboveThreshold == \A i \in Lefts : ~HasMatch(i)

C2_NoMatchIsNotAnError ==
    (Ended /\ NoPairAboveThreshold) =>
        /\ Returned
        /\ \A k \in Rows : Unmatched(merged_df[k])
        /\ \A i \in Lefts : \E k \in Rows : IsUnmatchedLeftRow(merged_df[k], metacritic[i])
        /\ \A j \in Rights : \E k \in Rows : IsUnmatchedRightRow(merged_df[k], steam[j])

\* ------------------------------------------------------------------------
\* C3 (as claimed): with an empty right table and a non-empty left table the
\* call returns one unmatched row per left record with a title, in order,
\* with all right-side fields null.
\* ------------------------------------------------------------------------
C3_EmptyRight ==
    (Ended /\ steam_df = <<>> /\ metacritic_df # <<>>) =>
        /\ Returned
        /\ Len(merged_df) = Len(metacritic)
        /\ \A i \in Lefts : IsUnmatchedLeftRow(merged_df[i], metacritic[i])

\* ------------------------------------------------------------------------
\* C4 (as claimed): with an empty left table and a non-empty right table the
\* call returns one unmatched row per right record with a title, with all
\* left-side fields null and the title of the right record.
\* ------------------------------------------------------------------------
C4_EmptyLeft ==
    (Ended /\ metacritic_df = <<>> /\ steam_df # <<>>) =>
        /\ Returned
        /\ Len(merged_df) = Len(steam)
        /\ \A j \in Rights : IsUnmatchedRightRow(merged_df[j], steam[j])

\* ------------------------------------------------------------------------
\* C5 (as claimed): a right record gets an unmatched-right row if and only
\* if its title is not the title of a right record carried by a matched row.
\* ------------------------------------------------------------------------
MatchedRightTitles ==
    { steam[j].game_title :
        j \in { j \in Rights : \E k \in RowsOfRight(j) : merged_df[k].is_matched } }

HasUnmatchedRightRow(j) ==
    \E k \in Rows : IsUnmatchedRightRow(merged_df[k], steam[j])

C5_UnmatchedRightByRightTitle ==
    Returned =>
        \A j \in Rights :
            HasUnmatchedRightRow(j) <=> steam[j].game_title \notin MatchedRightTitles

\* ------------------------------------------------------------------------
\* C6 (as claimed): a matched row whose metascore and whose right record's
\* review_score_approx are both available has
\* combined_score = metascore * 0.6 + review_score_approx * 0.4 (tenths:
\* 6 * metascore + 4 * review_score_approx); a metascore of 80 matched with
\* confidence 1.0 to a "Very Positive" record gives 82.0.
\* ------------------------------------------------------------------------
C6_CombinedScoreFromReviewLabel ==
    Returned =>
        \A k \in Rows : \A j \in Rights :
            ( /\ merged_df[k].is_matched
              /\ merged_df[k].steam_url = steam[j].steam_url
              /\ NumNotNa(merged_df[k].metascore)
              /\ NumNotNa(steam[j].review_score_approx) )
            => /\ merged_df[k].combined_score =
                    6 * merged_df[k].metascore + 4 * steam[j].review_score_approx
               /\ ( /\ merged_df[k].metascore = 80
                    /\ merged_df[k].steam_review_summary = VeryPositive )
                  => merged_df[k].combined_score = 820

\* ------------------------------------------------------------------------
\* C7: a left record the loop has processed is a matched row if and only if
\* its highest score over the right records exceeds 0.70; that row carries
\* the fields of the first right record with the highest score, and its
\* match_confidence is that score.
\* ------------------------------------------------------------------------
C7_GreedyBestMatch ==
    \A i \in 1..idx :
        /\ (MatchedRowsOfLeft(i) # {}) <=> HasMatch(i)
        /\ \A k \in MatchedRowsOfLeft(i) : \E j \in Rights :
              /\ IsFirstBest(i, j)
              /\ CarriesRight(merged_df[k], steam[j])
              /\ CarriesLeft(merged_df[k], metacritic[i])
              /\ RatEq(merged_df[k].match_confidence, Score(i, j))

\* a returned table in which a left record had two right records tied at
\* its highest score, above the threshold, and is matched with the first
C7_Witness ==
    /\ Returned
    /\ \E i \in Lefts : \E j1, j2 \in Rights :
          /\ j1 < j2
          /\ IsFirstBest(i, j1)
          /\ AboveThreshold(i, j1)
          /\ RatEq(Score(i, j1), Score(i, j2))
          /\ \E k \in MatchedRowsOfLeft(i) : CarriesRight(merged_df[k], steam[j1])

\* ------------------------------------------------------------------------
\* C8: the threshold is strict.  No matched row pairs a left record with a
\* right record whose score is 0.70 or less, and a pair that is the first
\* best of its left record with a score above 0.70 is a matched row.
\* ------------------------------------------------------------------------
C8_StrictThreshold ==
    \A i \in 1..idx : \A j \in Rights :
        /\ ~AboveThreshold(i, j) =>
              ~\E k \in MatchedRowsOfLeft(i) : merged_df[k].steam_url = steam[j].steam_url
        /\ (AboveThreshold(i, j) /\ IsFirstBest(i, j)) =>
              \E k \in MatchedRowsOfLeft(i) : merged_df[k].steam_url = steam[j].steam_url

\* a returned table in which a left record whose best pair scores exactly
\* 0.70 (equal titles, developers with nothing in common) is an unmatched row
C8_Witness ==
    /\ Returned
    /\ \E i \in Lefts : \E j \in Rights :
          /\ IsFirstBest(i, j)
          /\ RatEq(Score(i, j), Threshold)
          /\ RatEq(string_similarity(metacritic[i].game_title, steam[j].game_title),
                   <<1, 1>>)
          /\ \E k \in Rows : IsUnmatchedLeftRow(merged_df[k], metacritic[i])

\* ------------------------------------------------------------------------
\* C9 (as claimed): no two rows of the returned table have the same
\* game_title, and there is exactly one row per matched pair and per
\* unmatched source record.
\* ------------------------------------------------------------------------
C9_OneRowPerTitle ==
    Returned =>
        /\ \A k1, k2 \in Rows :
              k1 # k2 => merged_df[k1].game_title # merged_df[k2].game_title
        /\ \A p \in MatchedPairs :
              Cardinality(RowsOfLeft(p[1]) \cap RowsOfRight(p[2])) = 1
        /\ \A i \in UnmatchedLeft :
              Cardinality({ k \in Rows : IsUnmatchedLeftRow(merged_df[k], metacritic[i]) }) = 1
        /\ \A j \in UnmatchedRight :
              Cardinality({ k \in Rows : IsUnmatchedRightRow(merged_df[k], steam[j]) }) = 1

\* ------------------------------------------------------------------------
\* C10: matching is not exclusive.  Two different left records that both
\* have the same right record as first best, above the threshold, are both
\* matched rows carrying the fields of that right record.
\* ------------------------------------------------------------------------
C10_NoMutualExclusivity ==
    \A i1, i2 \in 1..idx : \A j \in Rights :
        ( /\ i1 # i2
          /\ IsFirstBest(i1, j) /\ AboveThreshold(i1, j)
          /\ IsFirstBest(i2, j) /\ AboveThreshold(i2, j) )
        => /\ \E k \in MatchedRowsOfLeft(i1) : CarriesRight(merged_df[k], steam[j])
           /\ \E k \in MatchedRowsOfLeft(i2) : CarriesRight(merged_df[k], steam[j])

\* a returned table with two matched rows of different left records that
\* carry the same right record
C10_Witness ==
    /\ Returned
    /\ \E k1, k2 \in Rows :
          /\ k1 # k2
          /\ merged_df[k1].is_matched /\ merged_df[k2].is_matched
          /\ merged_df[k1].metacritic_url # merged_df[k2].metacritic_url
          /\ merged_df[k1].steam_url = merged_df[k2].steam_url

\* ------------------------------------------------------------------------
\* C11: a returned row that is unmatched, or has no metascore, or has no
\* review score (no steam_review_summary, or no steam_review_score derived
\* from it) has a null combined_score; a non-null combined_score is only on
\* matched rows with a metascore and a review score.
\* ------------------------------------------------------------------------
LacksReviewScore(r) ==
    r.steam_review_summary = None \/ r.steam_review_score = NaNum

RowGroup(r) ==
    IF r.is_matched THEN 1 ELSE IF r.metacritic_url # None THEN 2 ELSE 3

\* position, in its source table, of the record row r was built from
SourcePosition(r) ==
    IF RowGroup(r) = 3
    THEN CHOOSE j \in Rights : steam[j].steam_url = r.steam_url
    ELSE CHOOSE i \in Lefts : metacritic[i].metacritic_url = r.metacritic_url

HasDeveloper(developer) == IsStr(developer) /\ developer # NotAvailable

TitleSim(i, j) == string_similarity(metacritic[i].game_title, steam[j].game_title)

DeveloperSim(i, j) ==
    string_similarity(metacritic[i].developer, steam[j].steam_developer)

\* 0.7 * t + 0.3 * d as a fraction
Weighted(t, d) == <<7 * t[1] * d[2] + 3 * d[1] * t[2], 10 * t[2] * d[2]>>

InUnitInterval(p) == ~Gt(<<0, 1>>, p) /\ ~Gt(p, <<1, 1>>)

C21_MatchScore ==
    /\ \A i \in Lefts : \A j \in Rights :
          /\ IF HasDeveloper(metacritic[i].developer)
                /\ HasDeveloper(steam[j].steam_developer)
             THEN RatEq(Score(i, j), Weighted(TitleSim(i, j), DeveloperSim(i, j)))
             ELSE RatEq(Score(i, j), TitleSim(i, j))
          /\ InUnitInterval(Score(i, j))
    /\ \A k \in Rows : InUnitInterval(merged_df[k].match_confidence)

\* the scan has scored a pair with two developers whose similarity differs
\* from the title's, so that the score is neither of the two, and a pair
\* with a placeholder developer and a pair with a missing developer, whose
\* score is the title's similarity
C21_Witness ==
    /\ pc = "match"
    /\ \E i \in 1..idx : \E j \in Rights :
          /\ HasDeveloper(metacritic[i].developer)
          /\ HasDeveloper(steam[j].steam_developer)
          /\ ~RatEq(Score(i, j), TitleSim(i, j))
          /\ ~RatEq(Score(i, j), DeveloperSim(i, j))
    /\ \E i \in 1..idx : \E j \in Rights :
          /\ metacritic[i].developer = NotAvailable
          /\ Gt(Score(i, j), <<0, 1>>)
    /\ \E i \in 1..idx : \E j \in Rights :
          /\ steam[j].steam_developer = None
          /\ Gt(Score(i, j), <<0, 1>>)

\* ------------------------------------------------------------------------
\* Calls of the pure functions.  Each specification draws the argument of
\* one call from a bounded set; its action is the call.
\* ------------------------------------------------------------------------
\* all strings of at most n characters of the alphabet
StringsUpTo(alphabet, n) == UNION { [1..k -> alphabet] : k \in 0..n }

FnReturn(value) ==
    /\ called = FALSE
    /\ ret' = value
    /\ called' = TRUE
    /\ UNCHANGED arg

\* ------------------------------------------------------------------------
\* DataMerger.clean_game_title
\* ------------------------------------------------------------------------
MaxTitleLen == 4

TitleInputs == StringsUpTo({"1", ".", " ", "a"}, MaxTitleLen) \cup {None}

InitTitle ==
    /\ IdleOutside("fn")
    /\ arg \in TitleInputs
    /\ ret = None
    /\ called = FALSE

CallCleanGameTitle ==
    /\ FnReturn(clean_game_title(arg))
    /\ UnchangedOutside("fn")

NextTitle == CallCleanGameTitle

SpecTitle == InitTitle /\ [][NextTitle]_vars

\* s starts with an enumeration prefix: one or more digits and a period
HasEnumerationPrefix(s) ==
    \E d \in 1..(Len(s) - 1) :
        /\ \A i \in 1..d : s[i] \in Digits
        /\ s[d + 1] = "."

HasSurroundingWhitespace(s) ==
    s # <<>> /\ (s[1] \in Whitespace \/ s[Len(s)] \in Whitespace)

\* ------------------------------------------------------------------------
\* C13 (as claimed): for every string title the cleaned title has no
\* leading enumeration prefix and no surrounding whitespace, and cleaning
\* it again leaves it unchanged.
\* ------------------------------------------------------------------------
C13_TitleCleanupIdempotent ==
    (called /\ IsStr(arg)) =>
        /\ ~HasEnumerationPrefix(ret)
        /\ ~HasSurroundingWhitespace(ret)
        /\ clean_game_title(ret) = ret

\* ------------------------------------------------------------------------
\* DataCleaner._extract_price.  A price is a fraction <<numerator,
\* denominator>>, None when the function returns None.
\* ------------------------------------------------------------------------
MaxPriceLen == 3

Free == <<"F", "r", "e", "e">>

FreeToPlay == <<"F", "r", "e", "e", " ", "t", "o", " ", "P", "l", "a", "y">>

\* variant of the list of line 108 without 'N/A'
ZeroPriceTokensWithoutNA == {Free, FreeToPlay, <<>>}

\* line 108: the strings that mean a price of 0.0
ZeroPriceTokens == {NotAvailable, Free, FreeToPlay, <<>>}

\* re.search(cs+, s).group(): the first maximal run of characters of cs in
\* s, <<>> when there is none
RECURSIVE SearchRun(_, _)
SearchRun(s, cs) ==
    IF s = <<>> THEN <<>>
    ELSE IF Head(s) \in cs THEN SubSeq(s, 1, PrefixRun(s, cs))
         ELSE SearchRun(Tail(s), cs)

\* re.sub('[^cs]', '', s): s without the characters outside cs
RECURSIVE KeepChars(_, _)
KeepChars(s, cs) ==
    IF s = <<>> THEN <<>>
    ELSE (IF Head(s) \in cs THEN <<Head(s)>> ELSE <<>>) \o KeepChars(Tail(s), cs)

RECURSIVE Pow10(_)
Pow10(n) == IF n = 0 THEN 1 ELSE 10 * Pow10(n - 1)

\* float(s) for a string of digits and periods: ValueError (None) unless it
\* has a digit and at most one period
ParseFloat(s) ==
    LET digits == KeepChars(s, Digits)
        periods == Len(s) - Len(digits)
        whole == PrefixRun(s, Digits)
    IN  IF digits = <<>> \/ periods > 1 THEN None
        ELSE IF periods = 0 THEN <<DigitsValue(digits), 1>>
        ELSE <<DigitsValue(digits), Pow10(Len(digits) - whole)>>

extract_price(price_str) ==
    IF ~IsStr(price_str) THEN None
    ELSE LET stripped == Strip(price_str)
         IN  IF stripped \in ZeroPriceTokens THEN <<0, 1>>
             ELSE LET price_match == SearchRun(stripped, Digits \cup {".", ","})
                  IN  IF price_match # <<>>
                      THEN ParseFloat(KeepChars(price_match, Digits \cup {"."}))
                      ELSE None

Price1999 == <<"$", "1", "9", ".", "9", "9">>

PriceInputs ==
    StringsUpTo({"$", "1", ".", ",", " "}, MaxPriceLen)
    \cup { None, NotAvailable, Free, FreeToPlay, Price1999,
           <<" ", "F", "r", "e", "e", " ">>,
           <<"$", "1", ",", "2", "9", "9", ".", "0", "0">>,
           <<"1", "9", ",", "9", "9", "e">>,
           <<"T", "B", "A">> }

InitPrice ==
    /\ IdleOutside("fn")
    /\ arg \in PriceInputs
    /\ ret = None
    /\ called = FALSE

CallExtractPrice ==
    /\ FnReturn(extract_price(arg))
    /\ UnchangedOutside("fn")

NextPrice == CallExtractPrice

SpecPrice == InitPrice /\ [][NextPrice]_vars

IsPrice(value, numerator, denominator) ==
    value # None /\ RatEq(value, <<numerator, denominator>>)

\* ------------------------------------------------------------------------
\* C14 (as claimed): "Free" gives 0.0, "$19.99" gives 19.99 and the
\* placeholder "N/A" gives null.
\* ------------------------------------------------------------------------
C14_PriceParsing ==
    called =>
        /\ arg = Free => IsPrice(ret, 0, 1)
        /\ arg = Price1999 => IsPrice(ret, 1999, 100)
        /\ arg = NotAvailable => ret = None

\* ------------------------------------------------------------------------
\* C14 (amended): "Free" gives 0.0, "$19.99" gives 19.99 and the
\* placeholder "N/A" gives 0.0.
\* ------------------------------------------------------------------------
C14_PriceParsingAmended ==
    called =>
        /\ arg = Free => IsPrice(ret, 0, 1)
        /\ arg = Price1999 => IsPrice(ret, 1999, 100)
        /\ arg = NotAvailable => IsPrice(ret, 0, 1)

\* the call on "N/A" has returned
C14_Witness == called /\ arg = NotAvailable

\* ========================================================================
\* DataCleaner._standardize_date
\* ========================================================================

\* length of the strings of the exhaustive part of the date inputs
MaxDateLen == 5

\* spaces put before and after a date input
MaxPadding == 1

TBA == <<"T", "B", "A">>

\* line 124: the strings returned as None before any parsing
NoDateTokens == {NotAvailable, TBA, <<>>}

\* re.sub(r'\(.*?\)', '', s): every '(' that has a ')' after it is removed
\* together with the text up to the nearest such ')'
RECURSIVE RemoveParenthesized(_)
RemoveParenthesized(s) ==
    IF s = <<>> THEN <<>>
    ELSE IF Head(s) = "(" /\ \E i \in 2..Len(s) : s[i] = ")"
         THEN LET close == CHOOSE i \in 2..Len(s) :
                               /\ s[i] = ")"
                               /\ \A j \in 2..(i - 1) : s[j] # ")"
              IN  RemoveParenthesized(Drop(s, close))
         ELSE <<Head(s)>> \o RemoveParenthesized(Tail(s))

\* calendar.month_name of the C locale, lower-cased as _strptime keeps them
MonthNames ==
    << <<"j", "a", "n", "u", "a", "r", "y">>, <<"f", "e", "b", "r", "u", "a", "r", "y">>, <<"m", "a", "r", "c", "h">>, <<"a", "p", "r", "i", "l">>, <<"m", "a", "y">>, <<"j", "u", "n", "e">>,
       <<"j", "u", "l", "y">>, <<"a", "u", "g", "u", "s", "t">>, <<"s", "e", "p", "t", "e", "m", "b", "e", "r">>, <<"o", "c", "t", "o", "b", "e", "r">>, <<"n", "o", "v", "e", "m", "b", "e", "r">>,
       <<"d", "e", "c", "e", "m", "b", "e", "r">> >>

\* the candidates of a list of month names at the start of s (letter case
\* ignored, re.IGNORECASE), as <<length, month>>
RECURSIVE NameAlternatives(_, _, _)
NameAlternatives(s, names, i) ==
    IF i > Len(names) THEN <<>>
    ELSE (IF /\ Len(s) >= Len(names[i])
             /\ Lower(SubSeq(s, 1, Len(names[i]))) = names[i]
          THEN << <<Len(names[i]), i>> >>
          ELSE <<>>) \o NameAlternatives(s, names, i + 1)

\* the candidates of one element of a format at the start of s, as
\* <<length, value>> in the order the regex engine tries them:
\*   %d  3[0-1]|[1-2]\d|0[1-9]|[1-9]| [1-9]
\*   %m  1[0-2]|0[1-9]|[1-9]
\*   %Y  \d\d\d\d
\*   %b, %B  the month abbreviations (calendar.month_abbr) and names
\*   " " \s+, greedy: the longest run first
\*   any other character: itself
Alternatives(s, token) ==
    LET IsDigitAt(i) == i <= Len(s) /\ s[i] \in Digits
        Branch(ok, n, value) == IF ok THEN << <<n, value>> >> ELSE <<>>
        two == DigitsValue(SubSeq(s, 1, 2))
        twoDigits == IsDigitAt(1) /\ IsDigitAt(2)
        oneDigit == Branch(IsDigitAt(1) /\ s[1] # "0", 1, DigitValue(s[1]))
        spaces == PrefixRun(s, Whitespace)
    IN  CASE token = "%d" ->
                 Branch(twoDigits /\ two \in 30..31, 2, two)
                 \o Branch(twoDigits /\ two \in 10..29, 2, two)
                 \o Branch(twoDigits /\ two \in 1..9, 2, two)
                 \o oneDigit
                 \o Branch(Len(s) >= 2 /\ s[1] = " " /\ IsDigitAt(2) /\ s[2] # "0",
                           2, DigitValue(s[2]))
          [] token = "%m" ->
                 Branch(twoDigits /\ two \in 10..12, 2, two)
                 \o Branch(twoDigits /\ two \in 1..9, 2, two)
                 \o oneDigit
          [] token = "%Y" ->
                 Branch(\A i \in 1..4 : IsDigitAt(i), 4,
                        DigitsValue(SubSeq(s, 1, 4)))
          [] token = "%b" ->
                 NameAlternatives(s, [i \in 1..12 |-> SubSeq(MonthNames[i], 1, 3)], 1)
          [] token = "%B" -> NameAlternatives(s, MonthNames, 1)
          [] token = " " -> [k \in 1..spaces |-> <<spaces + 1 - k, 0>>]
          [] OTHER -> Branch(s # <<>> /\ Head(s) = token, 1, 0)

\* the ways the regex of a format matches a prefix of s, in the order the
\* regex engine finds them; each gives the text left over and the fields
RECURSIVE Matches(_, _, _)
RECURSIVE MatchesVia(_, _, _, _)
Matches(s, format, date) ==
    IF format = <<>> THEN << [rest |-> s, date |-> date] >>
    ELSE MatchesVia(s, format, date, Alternatives(s, Head(format)))

MatchesVia(s, format, date, alternatives) ==
    IF alternatives = <<>> THEN <<>>
    ELSE LET first == Head(alternatives)
             token == Head(format)
             found == CASE token = "%d" -> [date EXCEPT !.d = first[2]]
                        [] token \in {"%m", "%b", "%B"} ->
                               [date EXCEPT !.m = first[2]]
                        [] token = "%Y" -> [date EXCEPT !.Y = first[2]]
                        [] OTHER -> date
         IN  Matches(Drop(s, first[1]), Tail(format), found)
             \o MatchesVia(s, format, date, Tail(alternatives))

DaysInMonth(year, month) ==
    LET leap == year % 4 = 0 /\ (year % 100 # 0 \/ year % 400 = 0)
    IN  IF month = 2 THEN (IF leap THEN 29 ELSE 28)
        ELSE IF month \in {4, 6, 9, 11} THEN 30
        ELSE 31

\* what datetime.strptime raises
ValueError == <<>>

\* datetime.strptime(s, format): the first match of the regex has to use
\* the whole string and name a day of the calendar, else ValueError; a
\* directive absent from the format leaves its default
strptime(s, format) ==
    LET found == Matches(s, format, [Y |-> 1900, m |-> 1, d |-> 1])
    IN  IF found = <<>> THEN ValueError
        ELSE LET date == Head(found).date
             IN  IF Head(found).rest # <<>> THEN ValueError
                 ELSE IF date.Y < 1 \/ date.d > DaysInMonth(date.Y, date.m)
                 THEN ValueError
                 ELSE <<date.Y, date.m, date.d>>

\* str(n) of a natural number
RECURSIVE DecimalDigits(_)
DecimalDigits(n) ==
    IF n < 10 THEN << CHOOSE c \in Digits : DigitValue(c) = n >>
    ELSE DecimalDigits(n \div 10) \o DecimalDigits(n % 10)

Jan1 == <<"-", "0", "1", "-", "0", "1">>

\* date_obj.strftime('%Y-%m-%d'); the C library writes the year without
\* leading zeros
strftime(date) ==
    LET TwoDigits(n) ==
            IF n < 10 THEN <<"0">> \o DecimalDigits(n) ELSE DecimalDigits(n)
    IN  DecimalDigits(date[1]) \o <<"-">> \o TwoDigits(date[2])
        \o <<"-">> \o TwoDigits(date[3])

YearOnly == <<"%Y">>

\* variant of the list of lines 131-144 with day/month/year tried before
\* month/day/year
date_formats_day_first ==
    << <<"%b", " ", "%d", ",", " ", "%Y">>,
       <<"%B", " ", "%d", ",", " ", "%Y">>,
       <<"%d", " ", "%b", ",", " ", "%Y">>,
       <<"%d", " ", "%B", ",", " ", "%Y">>,
       <<"%d", " ", "%b", " ", "%Y">>,
       <<"%d", " ", "%B", " ", "%Y">>,
       <<"%b", " ", "%d", " ", "%Y">>,
       <<"%B", " ", "%d", " ", "%Y">>,
       <<"%Y", "-", "%m", "-", "%d">>,
       <<"%d", "/", "%m", "/", "%Y">>,
       <<"%m", "/", "%d", "/", "%Y">>,
       YearOnly >>

\* lines 131-144, in the order of the source
date_formats ==
    << <<"%b", " ", "%d", ",", " ", "%Y">>,
       <<"%B", " ", "%d", ",", " ", "%Y">>,
       <<"%d", " ", "%b", ",", " ", "%Y">>,
       <<"%d", " ", "%B", ",", " ", "%Y">>,
       <<"%d", " ", "%b", " ", "%Y">>,
       <<"%d", " ", "%B", " ", "%Y">>,
       <<"%b", " ", "%d", " ", "%Y">>,
       <<"%B", " ", "%d", " ", "%Y">>,
       <<"%Y", "-", "%m", "-", "%d">>,
       <<"%m", "/", "%d", "/", "%Y">>,
       <<"%d", "/", "%m", "/", "%Y">>,
       YearOnly >>

\* [a-zA-Z0-9_], the characters \b tells apart from the others
IsWordChar(c) ==
    \/ c \in Digits
    \/ c = "_"
    \/ LowerChar(c) \in
           {"a", "b", "c", "d", "e", "f", "g", "h", "i", "j", "k", "l", "m",
            "n", "o", "p", "q", "r", "s", "t", "u", "v", "w", "x", "y", "z"}

\* r'\b(19|20)\d{2}\b' matches at position i of s
YearMatchAt(s, i) ==
    /\ i + 3 <= Len(s)
    /\ SubSeq(s, i, i + 1) \in {<<"1", "9">>, <<"2", "0">>}
    /\ s[i + 2] \in Digits /\ s[i + 3] \in Digits
    /\ i = 1 \/ ~IsWordChar(s[i - 1])
    /\ i + 3 = Len(s) \/ ~IsWordChar(s[i + 4])

\* re.search(r'\b(19|20)\d{2}\b', s).group(): the leftmost match from
\* position i on, None without one
RECURSIVE YearSearch(_, _)
YearSearch(s, i) ==
    IF i > Len(s) THEN None
    ELSE IF YearMatchAt(s, i) THEN SubSeq(s, i, i + 3)
    ELSE YearSearch(s, i + 1)

\* the loop of lines 146-155 from the i-th format on, then lines 157-163
RECURSIVE TryFormats(_, _)
TryFormats(date_str, i) ==
    IF i > Len(date_formats)
    THEN LET year_match == YearSearch(date_str, 1)
         IN  IF year_match # None THEN year_match \o Jan1 ELSE None
    ELSE LET date_obj == strptime(date_str, date_formats[i])
         IN  IF date_obj = ValueError THEN TryFormats(date_str, i + 1)
             ELSE IF date_formats[i] = YearOnly
             THEN DecimalDigits(date_obj[1]) \o Jan1
             ELSE strftime(date_obj)

standardize_date(date_str) ==
    IF ~IsStr(date_str) \/ date_str \in NoDateTokens THEN None
    ELSE TryFormats(Strip(RemoveParenthesized(date_str)), 1)

\* the arguments of the model: numeric dates as the stores write them,
\* dates with a month name (the month or the day first, with or without
\* the comma), strings that are no date of any format (a year alone or
\* inside other text, text in parentheses, placeholders), each with up to
\* MaxPadding spaces around it; every string over four characters up to
\* MaxDateLen; the missing value
DateInputs ==
    LET days == {<<"1">>, <<"0", "1">>, <<"2">>, <<"1", "2">>, <<"1", "3">>, <<"2", "9">>, <<"3", "0">>, <<"3", "1">>, <<"3", "2">>,
                 <<"0">>, <<" ", "2">>}
        years == {<<"2", "0", "2", "0">>, <<"2", "0", "2", "1">>, <<"0", "9", "9", "9">>, <<"2", "0", "2", "0", "1">>}
        months == {<<"J", "a", "n">>, <<"j", "a", "n">>, <<"J", "a", "n", "u", "a", "r", "y">>, <<"F", "e", "b">>, <<"F", "e", "b", "r", "u", "a", "r", "y">>, <<"M", "A", "Y">>,
                   <<"S", "e", "p", "t">>}
        gaps == {<<>>, <<" ">>, <<" ", " ">>}
        slash == { a \o <<"/">> \o b \o <<"/">> \o y :
                       a \in days, b \in days, y \in years }
        iso == { y \o <<"-">> \o a \o <<"-">> \o b :
                     a \in {<<"1">>, <<"0", "2">>, <<"1", "2">>, <<"1", "3">>},
                     b \in {<<"1">>, <<"2", "9">>, <<"3", "0">>, <<"3", "1">>}, y \in years }
        named ==
            UNION { { m \o g \o d \o c \o g \o y, d \o g \o m \o c \o g \o y } :
                        <<m, d, y, g>> \in months
                                           \X {<<"1">>, <<"0", "1">>, <<"2", "9">>, <<"3", "0">>, <<"3", "1">>}
                                           \X {<<"2", "0", "2", "0">>, <<"2", "0", "2", "1">>} \X gaps,
                        c \in {<<>>, <<",">>} }
        other ==
            { <<"2", "0", "2", "0">>, <<"1", "9", "9", "9">>, <<"1", "8", "5", "0">>, <<"3", "0", "0", "0">>, <<"0", "0", "0", "0">>, <<"x", "2", "0", "2", "0">>, <<"2", "0", "2", "0", "x">>,
              <<"_", "2", "0", "2", "0">>, <<"i", "n", " ", "2", "0", "2", "0", "!">>, <<"2", "0", "1", "9", "-", "2", "0", "2", "0">>, <<"Q", "1", " ", "2", "0", "2", "1">>, <<"1", "2", "0", "2", "0", "1">>,
              <<"(", "2", "0", "2", "0", ")">>, <<"2", "0", "2", "0", " ", "(", "E", "A", ")">>, <<"a", "b", "c", " ", "(", "2", "0", "1", "9", ")", " ", "2", "0", "2", "0">>, <<"(", "a", ")", " ", "(", "b", ")", "1", "9", "9", "9">>,
              <<"(", "(", "2", "0", "2", "0", ")", ")">>, <<"(", "2", "0", "2", "0">>, <<"2", "0", "2", "0", ")">>, <<"T", "B", "A", " ", "(", "2", "0", "2", "0", ")">>, <<"N", "/", "A", " ", "(", "x", ")">>,
              <<"0", "1", "/", "0", "2", "/", "2", "0", "2", "0", " ", "(", "U", "S", ")">>, <<"J", "a", "n", " ", "1", ",", " ", "2", "0", "2", "0", " ", "(", "E", "a", "r", "l", "y", " ", "A", "c", "c", "e", "s", "s", ")">>,
              <<"c", "o", "m", "i", "n", "g", " ", "s", "o", "o", "n">>, <<"2", "0", "2", "0", "/", "0", "1", "/", "0", "2">>, <<"1", "/", "2", "/", "2", "0">>, <<"J", "a", "n", " ", "1", ",", " ", "2", "0", "2", "0">>,
              <<"0", "1", "/", "0", "1", "/", "2", "0", "2", "0">>, NotAvailable, TBA }
        Padded(s, k) == [i \in 1..k |-> " "] \o s \o [i \in 1..k |-> " "]
    IN  { Padded(s, k) : s \in slash \cup iso \cup named \cup other,
                         k \in 0..MaxPadding }
        \cup StringsUpTo({"2", "0", "x", " "}, MaxDateLen)
        \cup {None}

InitDate ==
    /\ IdleOutside("fn")
    /\ arg \in DateInputs
    /\ ret = None
    /\ called = FALSE

CallStandardizeDate ==
    /\ FnReturn(standardize_date(arg))
    /\ UnchangedOutside("fn")

NextDate == CallStandardizeDate

SpecDate == InitDate /\ [][NextDate]_vars

MonthDayYear == date_formats[10]

DayMonthYear == date_formats[11]

\* the string the date-parsing loop sees
Trimmed(date_str) == Strip(RemoveParenthesized(date_str))

\* the positions of the list whose pattern parses s
ParsingFormats(s) ==
    { i \in 1..Len(date_formats) : strptime(s, date_formats[i]) # ValueError }

FirstParsingFormat(s) ==
    CHOOSE i \in ParsingFormats(s) : \A j \in ParsingFormats(s) : i <= j

\* (19|20)\d{2} matches at position i of s
PlainYearAt(s, i) ==
    /\ i + 3 <= Len(s)
    /\ SubSeq(s, i, i + 1) \in {<<"1", "9">>, <<"2", "0">>}
    /\ s[i + 2] \in Digits /\ s[i + 3] \in Digits

\* the parts of the claim that do not depend on how the fallback looks for
\* a year: the first parsing pattern decides, a slash date valid both ways
\* is month/day/year, a year alone gives its first of January
ParsedByFirstPattern(date_str, result) ==
    LET s == Trimmed(date_str)
    IN  /\ ParsingFormats(s) # {} =>
              result = strftime(strptime(s, date_formats[FirstParsingFormat(s)]))
        /\ (strptime(s, MonthDayYear) # ValueError
                /\ strptime(s, DayMonthYear) # ValueError) =>
              result = strftime(strptime(s, <<"%m", "/", "%d", "/", "%Y">>))
        /\ strptime(s, YearOnly) # ValueError =>
              result = DecimalDigits(DigitsValue(s)) \o Jan1

MaxGames == 2

\* num_pages, the number of list pages a run asks for
MaxPages == 2

\* the record get_game_list builds for the i-th card of the list pages
BasicGame(title, i) ==
    [title |-> title, url |-> i, metascore |-> "90", platform |-> "PC",
     release_date |-> "Feb 25, 2022"]

\* the fields get_game_details reads from a game's page
MetacriticDetails ==
    [user_score |-> "8.1", critic_count |-> "84", user_count |-> "1,200",
     developer |-> "Studio", publisher |-> "Publisher", genres |-> "RPG"]

\* {**base, **update}
MergeDicts(base, update) == update @@ base

\* the titles of the cards of one list page whose parsing did not raise, at
\* most n of them
Cards(n) == UNION { [1..k -> {"Elden Ring", "Hades"}] : k \in 0..n }

\* the calls of one function, each with the site it goes to
Calls(site, calls) ==
    [k \in 1..Len(calls) |-> [site |-> site, call |-> calls[k]]]

\* the calls of requests.get and time.sleep of one pass of the loop of
\* get_game_list: the continue of line 31 and an exception of the request
\* leave it before the sleep of line 65
ListCalls(outcome) ==
    IF outcome = "ok" THEN <<"get", "sleep">> ELSE <<"get">>

\* the pages get_game_list has asked for so far
PagesDone ==
    Cardinality({ k \in 1..Len(net_log) : net_log[k].call = "get" })

\* what get_game_details appends for one game: without the except branch's
\* append
DetailedRecordsDroppingErrors(game, outcome) ==
    IF outcome = "ok" THEN << MergeDicts(game, MetacriticDetails) >>
    ELSE IF outcome = "non200" THEN << game >>
    ELSE <<>>

\* what get_game_details appends for one game
DetailedRecords(game, outcome) ==
    IF outcome = "ok" THEN << MergeDicts(game, MetacriticDetails) >>
    ELSE << game >>

\* the calls of requests.get and time.sleep of one pass of the loop of
\* get_game_details
MetacriticCalls(outcome) ==
    IF outcome = "ok" THEN <<"get", "sleep">> ELSE <<"get">>

InitScrape ==
    /\ IdleOutside("scrape")
    /\ games_list = <<>>
    /\ detailed_games = <<>> /\ game_titles = <<>> /\ steam_games = <<>>
    /\ outcomes = <<>>
    /\ raw_metacritic_csv = NoCsv /\ raw_steam_csv = NoCsv
    /\ net_log = <<>>
    /\ scrape_pc = "get_game_list"
    /\ scrape_exception = <<>>

\* one pass of the loop of get_game_list: the page is read and its cards
\* are appended, the request answers a non-200 status and the page is
\* skipped, or the request raises, which nothing in get_game_list or run
\* catches; after the last page get_game_details starts (line 159)
ScrapePage ==
    /\ scrape_pc = "get_game_list"
    /\ PagesDone < MaxPages
    /\ \E outcome \in {"ok", "non200", "exception"} :
          /\ net_log' = net_log \o Calls("metacritic", ListCalls(outcome))
          /\ IF outcome = "ok"
             THEN \E cards \in Cards(MaxGames - Len(games_list)) :
                      games_list' = games_list \o
                          [i \in 1..Len(cards) |->
                              BasicGame(cards[i], Len(games_list) + i)]
             ELSE UNCHANGED games_list
          /\ IF outcome = "exception"
             THEN /\ scrape_pc' = "raised"
                  /\ scrape_exception' = <<"ConnectionError">>
             ELSE /\ scrape_pc' = IF PagesDone + 1 = MaxPages
                                  THEN "get_game_details" ELSE scrape_pc
                  /\ UNCHANGED scrape_exception
    /\ UNCHANGED <<detailed_games, game_titles, steam_games, outcomes,
                   raw_metacritic_csv, raw_steam_csv>>
    /\ UnchangedOutside("scrape")

\* one pass of the loop of get_game_details: the page is read, the request
\* answers a non-200 status, or an exception is raised and caught
FetchGameDetails ==
    /\ scrape_pc = "get_game_details"
    /\ Len(outcomes) < Len(games_list)
    /\ \E outcome \in {"ok", "non200", "exception"} :
          LET game == games_list[Len(outcomes) + 1]
          IN  /\ detailed_games' =
                     detailed_games \o DetailedRecords(game, outcome)
              /\ outcomes' =
                     Append(outcomes, [site |-> "metacritic", outcome |-> outcome])
              /\ net_log' = net_log \o Calls("metacritic", MetacriticCalls(outcome))
    /\ UNCHANGED <<games_list, game_titles, steam_games, raw_metacritic_csv,
                   raw_steam_csv, scrape_pc, scrape_exception>>
    /\ UnchangedOutside("scrape")

\* the keys of the first game that has more fields than the ones before it
RECURSIVE MostFields(_, _)
MostFields(games, fieldnames) ==
    IF games = <<>> THEN fieldnames
    ELSE MostFields(Tail(games),
                    IF Cardinality(DOMAIN Head(games)) > Cardinality(fieldnames)
                    THEN DOMAIN Head(games) ELSE fieldnames)

\* the end of get_game_details and MetacriticScraper.save_to_csv; a row
\* with a key outside the header makes csv.DictWriter.writerows raise
SaveMetacriticCsv ==
    /\ scrape_pc = "get_game_details"
    /\ Len(outcomes) = Len(games_list)
    /\ LET fieldnames == MostFields(detailed_games, {})
       IN  IF \E i \in 1..Len(detailed_games) :
                  ~(DOMAIN detailed_games[i] \subseteq fieldnames)
           THEN /\ scrape_exception' = <<"ValueError">>
                /\ scrape_pc' = "raised"
                /\ UNCHANGED raw_metacritic_csv
           ELSE /\ raw_metacritic_csv' =
                       [fieldnames |-> fieldnames, rows |-> Len(detailed_games)]
                /\ scrape_pc' = "raw_steam_data"
                /\ UNCHANGED scrape_exception
    /\ UNCHANGED <<games_list, detailed_games, game_titles, steam_games,
                   outcomes, raw_steam_csv, net_log>>
    /\ UnchangedOutside("scrape")

\* df['title'].unique().tolist(): the titles in order, each once
RECURSIVE Unique(_)
Unique(titles) ==
    IF titles = <<>> THEN <<>>
    ELSE LET front == Unique(SubSeq(titles, 1, Len(titles) - 1))
             last == titles[Len(titles)]
         IN  IF \E i \in 1..Len(front) : front[i] = last THEN front
             ELSE Append(front, last)

\* lines 31-38 of raw_steam_data: the titles of the Metacritic file; a
\* file without a header makes pd.read_csv raise EmptyDataError (the cap of
\* max_titles = 240 is beyond the lists of this model)
ExtractTitles ==
    /\ scrape_pc = "raw_steam_data"
    /\ IF raw_metacritic_csv.fieldnames = {}
       THEN /\ scrape_exception' = <<"EmptyDataError">>
            /\ scrape_pc' = "raised"
            /\ UNCHANGED game_titles
       ELSE /\ game_titles' =
                   Unique([i \in 1..Len(detailed_games) |-> detailed_games[i].title])
            /\ scrape_pc' = "process_game_list"
            /\ UNCHANGED scrape_exception
    /\ UNCHANGED <<games_list, detailed_games, steam_games, outcomes,
                   raw_metacritic_csv, raw_steam_csv, net_log>>
    /\ UnchangedOutside("scrape")

SearchFailed(outcome) ==
    outcome \in {"search_non200", "no_results", "search_exception"}

\* the record process_game_list appends for the i-th title: the dict of a
\* failed search, or what search_game returned, what get_game_details
\* returned ({} for a page it could not read) and found
GameData(title, i, outcome) ==
    LET search_result == [search_term |-> title, app_id |-> i, app_url |-> i]
        game_details ==
            [title |-> title, app_url |-> i, price |-> "$59.99",
             discount |-> "N/A", review_summary |-> "Very Positive",
             review_count |-> "1,000", release_date |-> "Feb 24, 2022",
             developer |-> "Studio", publisher |-> "Publisher",
             tags |-> "RPG", system_requirements |-> "N/A"]
    IN  IF SearchFailed(outcome) THEN [search_term |-> title, found |-> FALSE]
        ELSE MergeDicts(MergeDicts(search_result,
                                   IF outcome = "ok" THEN game_details ELSE <<>>),
                        [found |-> TRUE])

\* the calls of requests.get and time.sleep of one pass of the loop of
\* process_game_list
SteamCalls(outcome) ==
    IF SearchFailed(outcome) THEN <<"get", "sleep">>
    ELSE <<"get", "get", "sleep">>

\* the passes of the loop of process_game_list made so far
SteamPasses == Len(outcomes) - Len(games_list)

\* one pass of the loop of process_game_list: the search fails (status, no
\* result row, exception), or it finds the game and the page is read or not
ProcessGame ==
    /\ scrape_pc = "process_game_list"
    /\ SteamPasses < Len(game_titles)
    /\ \E outcome \in {"ok", "search_non200", "no_results", "search_exception",
                       "details_failed"} :
          LET i == SteamPasses + 1
          IN  /\ steam_games' =
                     Append(steam_games, GameData(game_titles[i], i, outcome))
              /\ outcomes' =
                     Append(outcomes, [site |-> "steam", outcome |-> outcome])
              /\ net_log' = net_log \o Calls("steam", SteamCalls(outcome))
    /\ UNCHANGED <<games_list, detailed_games, game_titles, raw_metacritic_csv,
                   raw_steam_csv, scrape_pc, scrape_exception>>
    /\ UnchangedOutside("scrape")

\* the end of process_game_list and SteamScraper.save_to_csv: the header is
\* the union of the keys of all records
SaveSteamCsv ==
    /\ scrape_pc = "process_game_list"
    /\ SteamPasses = Len(game_titles)
    /\ raw_steam_csv' =
           [fieldnames |-> UNION { DOMAIN steam_games[i] : i \in 1..Len(steam_games) },
            rows |-> Len(steam_games)]
    /\ scrape_pc' = "clean_metacritic_data"
    /\ UNCHANGED <<games_list, detailed_games, game_titles, steam_games,
                   outcomes, raw_metacritic_csv, net_log, scrape_exception>>
    /\ UnchangedOutside("scrape")

\* the exception of reading the columns read in this order from a file:
\* EmptyDataError without a header, KeyError at the first column the header
\* lacks, <<>> when all are there
RECURSIVE FirstMissing(_, _)
FirstMissing(fieldnames, columns) ==
    IF columns = <<>> THEN <<>>
    ELSE IF Head(columns) \notin fieldnames THEN <<"KeyError", Head(columns)>>
    ELSE FirstMissing(fieldnames, Tail(columns))

CleaningException(csv, columns) ==
    IF csv.fieldnames = {} THEN <<"EmptyDataError">>
    ELSE FirstMissing(csv.fieldnames, columns)

\* DataCleaner.clean_metacritic_data on the raw Metacritic file, with the
\* columns it reads in the order it reads them
CleanMetacritic ==
    /\ scrape_pc = "clean_metacritic_data"
    /\ scrape_exception' =
           CleaningException(raw_metacritic_csv,
                             <<"title", "url", "metascore", "user_score",
                               "critic_count", "user_count", "release_date">>)
    /\ scrape_pc' = IF scrape_exception' = <<>> THEN "clean_steam_data" ELSE "raised"
    /\ UNCHANGED <<games_list, detailed_games, game_titles, steam_games,
                   outcomes, raw_metacritic_csv, raw_steam_csv, net_log>>
    /\ UnchangedOutside("scrape")

\* DataCleaner.clean_steam_data on the raw Steam file, with the columns it
\* reads in the order it reads them
CleanSteam ==
    /\ scrape_pc = "clean_steam_data"
    /\ scrape_exception' =
           CleaningException(raw_steam_csv,
                             <<"app_id", "price", "discount", "review_count",
                               "review_summary", "release_date">>)
    /\ scrape_pc' = IF scrape_exception' = <<>> THEN "cleaned" ELSE "raised"
    /\ UNCHANGED <<games_list, detailed_games, game_titles, steam_games,
                   outcomes, raw_metacritic_csv, raw_steam_csv, net_log>>
    /\ UnchangedOutside("scrape")

NextScrape ==
    \/ ScrapePage
    \/ FetchGameDetails
    \/ SaveMetacriticCsv
    \/ ExtractTitles
    \/ ProcessGame
    \/ SaveSteamCsv
    \/ CleanMetacritic
    \/ CleanSteam

SpecScrape == InitScrape /\ [][NextScrape]_vars

\* the outcome of the i-th pass of the loop of get_game_details and of
\* process_game_list
MetacriticOutcome(i) == outcomes[i].outcome

SteamOutcome(i) == outcomes[Len(games_list) + i].outcome

MetacriticLoopOver ==
    /\ scrape_pc \notin {"get_game_list", "get_game_details"}
    /\ scrape_exception # <<"ConnectionError">>

SteamLoopOver ==
    scrape_pc \in {"clean_metacritic_data", "clean_steam_data", "cleaned"}
    \/ (scrape_pc = "raised" /\ raw_steam_csv # NoCsv)

\* ------------------------------------------------------------------------
\* C16: whatever the outcome of each item (success, non-200 response,
\* exception), the loops of the scrapers do not abort: get_game_details
\* returns one record per input game in input order, a failed item being
\* the input record as it was, and process_game_list returns one record per
\* input title in input order.
\* ------------------------------------------------------------------------
C16_LoopsNeverAbort ==
    /\ scrape_pc \in {"get_game_details", "process_game_list"} =>
           scrape_exception = <<>>
    /\ scrape_pc = "get_game_details" => Len(detailed_games) = Len(outcomes)
    /\ MetacriticLoopOver => Len(detailed_games) = Len(games_list)
    /\ \A i \in 1..Len(detailed_games) :
           /\ detailed_games[i].title = games_list[i].title
           /\ detailed_games[i].url = games_list[i].url
           /\ MetacriticOutcome(i) # "ok" => detailed_games[i] = games_list[i]
    /\ scrape_pc = "process_game_list" => Len(steam_games) = SteamPasses
    /\ SteamLoopOver => Len(steam_games) = Len(game_titles)
    /\ \A i \in 1..Len(steam_games) :
           steam_games[i].search_term = game_titles[i]

\* both loops are over and each had an item that failed
C16_Witness ==
    /\ SteamLoopOver
    /\ \E i \in 1..Len(detailed_games) : MetacriticOutcome(i) = "exception"
    /\ \E i \in 1..Len(detailed_games) : MetacriticOutcome(i) = "non200"
    /\ \E i \in 1..Len(steam_games) : SearchFailed(SteamOutcome(i))
    /\ \E i \in 1..Len(steam_games) : SteamOutcome(i) = "details_failed"

\* a scraper has substituted a record holding only the fields it knew
HasPartialRecord ==
    \E i \in 1..Len(outcomes) : outcomes[i].outcome # "ok"

\* ------------------------------------------------------------------------
\* C17: when the scrapers have substituted partial records, also when every
\* Metacritic detail fetch or every Steam search failed so that a detail
\* column is on no record, the cleaning step runs to completion without
\* raising, and the batch goes on to the linking step.
\* ------------------------------------------------------------------------
C17_PartialRecordsNeverHalt ==
    HasPartialRecord => (scrape_pc # "raised" /\ scrape_exception = <<>>)

\* ------------------------------------------------------------------------
\* C24: in get_game_list, get_game_details and process_game_list no request
\* to a site is issued immediately after another request to the same site:
\* a sleep lies between any two consecutive requests, whatever the outcome
\* of the earlier one.
\* ------------------------------------------------------------------------
C24_DelayBetweenRequests ==
    \A k \in 1..(Len(net_log) - 1) :
        (net_log[k].call = "get" /\ net_log[k + 1].call = "get")
            => net_log[k].site # net_log[k + 1].site

\* ========================================================================
\* The validation of the final file: the validate_data op and lines 90-112
\* of the video_games_dataset asset
\* ========================================================================

\* the most rows a final file of the model has
MaxRows == 6

\* line 134 of ops.py, line 99 of assets.py
DefaultMinRows == 5

\* line 141 of ops.py, line 106 of assets.py
DefaultMinMatched == 3

required_columns ==
    {"mc_title", "mc_metascore", "mc_genres", "mc_developer", "steam_title",
     "steam_price_numeric", "steam_tags"}

\* the columns merge_datasets and the combined score give a merged file
MergedColumns == RowColumns \cup {"steam_review_score", "combined_score"}

\* the files of the model: none, an empty one, and CSV files whose header
\* is every required column and is_matched, the same with one column left
\* out, or the header of a file written by the merger; a file has no more
\* matched rows than rows, and none without the column is_matched
FinalFiles ==
    LET all == required_columns \cup {"is_matched"}
        headers == {all} \cup { all \ {c} : c \in all } \cup {MergedColumns}
        tables == { [kind |-> "csv", columns |-> h, rows |-> r, matched |-> m] :
                        h \in headers, r \in 0..MaxRows, m \in 0..MaxRows }
    IN  { NoFile, [kind |-> "empty", columns |-> {}, rows |-> 0, matched |-> 0] }
        \cup { f \in tables :
                   /\ f.matched <= f.rows
                   /\ "is_matched" \notin f.columns => f.matched = 0 }

\* context.op_config when the run gives no configuration
NoConfig == [none |-> TRUE]

\* the run configurations: none, or a dict with some of the two keys
Configs ==
    {NoConfig}
    \cup UNION { [keys -> {1, DefaultMinRows + 1}] :
                     keys \in SUBSET {"min_rows", "min_matched"} }

\* config.get(key, default)
Get(config, key, default) ==
    IF key \in DOMAIN config THEN config[key] ELSE default

InitValidate ==
    /\ IdleOutside("validate")
    /\ final_file \in FinalFiles
    /\ op_config \in Configs
    /\ op_result = ""
    /\ asset_result = ""

\* pd.read_csv(filepath): the exception it raises, "" when it returns
ReadCsvError(file) ==
    IF file.kind = "missing" THEN "FileNotFoundError"
    ELSE IF file.kind = "empty" THEN "EmptyDataError"
    ELSE ""

\* df[df.get('is_matched', False) == True]: without the column the key is
\* the scalar False and the lookup raises
MatchedGamesError(file) ==
    IF "is_matched" \in file.columns THEN "" ELSE "KeyError"

\* ops.py, validate_data
validate_data(file, config) ==
    IF ReadCsvError(file) # "" THEN ReadCsvError(file)
    ELSE IF config = NoConfig THEN "AttributeError"
    ELSE IF file.rows < Get(config, "min_rows", DefaultMinRows) THEN "False"
    ELSE IF MatchedGamesError(file) # "" THEN MatchedGamesError(file)
    ELSE IF file.matched < Get(config, "min_matched", DefaultMinMatched)
    THEN "False"
    ELSE IF ~(required_columns \subseteq file.columns) THEN "False"
    ELSE "True"

\* assets.py, lines 90-112 of video_games_dataset; (op_config or {})
dataset_validation(file, op_config_) ==
    LET config == IF op_config_ = NoConfig THEN <<>> ELSE op_config_
    IN  IF ReadCsvError(file) # "" THEN ReadCsvError(file)
        ELSE IF file.rows < Get(config, "min_rows", DefaultMinRows)
        THEN "ValueError"
        ELSE IF MatchedGamesError(file) # "" THEN MatchedGamesError(file)
        ELSE IF file.matched < Get(config, "min_matched", DefaultMinMatched)
        THEN "ValueError"
        ELSE "filepath"

ValidateData ==
    /\ op_result = ""
    /\ op_result' = validate_data(final_file, op_config)
    /\ UNCHANGED <<final_file, op_config, asset_result>>
    /\ UnchangedOutside("validate")

ValidateDataset ==
    /\ asset_result = ""
    /\ asset_result' = dataset_validation(final_file, op_config)
    /\ UNCHANGED <<final_file, op_config, op_result>>
    /\ UnchangedOutside("validate")

NextValidate == ValidateData \/ ValidateDataset

SpecValidate == InitValidate /\ [][NextValidate]_vars

\* the minimums in force for the file of the state
MinRows ==
    IF op_config = NoConfig THEN DefaultMinRows
    ELSE Get(op_config, "min_rows", DefaultMinRows)

MinMatched ==
    IF op_config = NoConfig THEN DefaultMinMatched
    ELSE Get(op_config, "min_matched", DefaultMinMatched)

\* one of the checks of the claim fails on the file
FailsACheck ==
    \/ final_file.rows < MinRows
    \/ final_file.matched < MinMatched
    \/ ~(required_columns \subseteq final_file.columns)

\* ------------------------------------------------------------------------
\* C18: each validation (the validate_data op, the validation inside the
\* video_games_dataset asset) reports failure whenever the final file has
\* fewer than min_rows rows (default 5), fewer than min_matched matched rows
\* (default 3) or lacks a required column; it reports success only when all
\* checks pass.
\* ------------------------------------------------------------------------
C18_ValidationChecks ==
    /\ op_result = "True" => ~FailsACheck
    /\ asset_result = "filepath" => ~FailsACheck

\* ------------------------------------------------------------------------
\* C22: a file written by save_merged_data from the output of merge_datasets
\* has every column validate_data requires, and validate_data returns True
\* for every such file with at least min_rows rows and at least min_matched
\* matched rows.
\* ------------------------------------------------------------------------
\* the final file is one the merger wrote
IsMergedFile == final_file.kind = "csv" /\ final_file.columns = MergedColumns

C22_MergedFilePassesValidation ==
    ( /\ IsMergedFile
      /\ op_config # NoConfig
      /\ final_file.rows >= MinRows
      /\ final_file.matched >= MinMatched
      /\ op_result # "" )
    => /\ required_columns \subseteq final_file.columns
       /\ op_result = "True"

\* ------------------------------------------------------------------------
\* C23: a missing or empty final file is reported through the validation
\* failure path: validate_data returns False and the video_games_dataset
\* asset raises ValueError, neither lets an exception of the read escape.
\* ------------------------------------------------------------------------
C23_MissingFileFailsValidation ==
    final_file.kind \in {"missing", "empty"} =>
        /\ op_result \in {"", "False"}
        /\ asset_result \in {"", "ValueError"}

\* ========================================================================
\* The asset graph of assets.py and the runs that materialize it
\* ========================================================================

\* the runs launched in one behaviour
MaxRuns == 2

\* variant of the deps of the assets in which cleaned_data does not wait
\* for raw_steam_data
AssetDepsWithoutSteam(a) ==
    CASE a = "raw_metacritic_data" -> {}
      [] a = "raw_steam_data" -> {"raw_metacritic_data"}
      [] a = "cleaned_data" -> {"raw_metacritic_data"}
      [] a = "video_games_dataset" -> {"cleaned_data"}

\* deps= of the @asset decorators
AssetDeps(a) ==
    CASE a = "raw_metacritic_data" -> {}
      [] a = "raw_steam_data" -> {"raw_metacritic_data"}
      [] a = "cleaned_data" -> {"raw_metacritic_data", "raw_steam_data"}
      [] a = "video_games_dataset" -> {"cleaned_data"}

\* what a run can materialize: the selection of video_games_job (only
\* video_games_dataset), or any assets of the repository chosen by hand
Selections == {{"video_games_dataset"}} \cup (SUBSET AssetKeys \ {{}})

InitPipeline ==
    /\ IdleOutside("pipeline")
    /\ PipeIdle

\* a run of the selected assets is launched
LaunchRun ==
    /\ selection = {}
    /\ runs < MaxRuns
    /\ \E s \in Selections : selection' = s
    /\ runs' = runs + 1
    /\ UNCHANGED <<stored, step, started, dataset_pc, written>>
    /\ UnchangedOutside("pipeline")

\* the step of a starts once every selected upstream step has succeeded; an
\* upstream output that is neither produced by this run nor stored cannot
\* be loaded, and the step fails before its body
StartStep(a) ==
    /\ a \in selection
    /\ step[a] = "pending"
    /\ \A u \in AssetDeps(a) \cap selection : step[u] = "succeeded"
    /\ IF (AssetDeps(a) \ selection) \subseteq stored
       THEN /\ step' = [step EXCEPT ![a] = "running"]
            /\ started' = [started EXCEPT ![a] = @ + 1]
            /\ dataset_pc' = IF a = "video_games_dataset" THEN "merge"
                             ELSE dataset_pc
       ELSE /\ step' = [step EXCEPT ![a] = "failed"]
            /\ UNCHANGED <<started, dataset_pc>>
    /\ UNCHANGED <<stored, selection, written, runs>>
    /\ UnchangedOutside("pipeline")

\* a step whose upstream step failed or was skipped does not run
SkipStep(a) ==
    /\ a \in selection
    /\ step[a] = "pending"
    /\ \E u \in AssetDeps(a) \cap selection : step[u] \in {"failed", "skipped"}
    /\ step' = [step EXCEPT ![a] = "skipped"]
    /\ UNCHANGED <<stored, selection, started, dataset_pc, written, runs>>
    /\ UnchangedOutside("pipeline")

\* the body of raw_metacritic_data, raw_steam_data or cleaned_data returns
\* (the output is stored) or raises
FinishStep(a) ==
    /\ a # "video_games_dataset"
    /\ step[a] = "running"
    /\ \E ok \in BOOLEAN :
          /\ step' = [step EXCEPT ![a] = IF ok THEN "succeeded" ELSE "failed"]
          /\ stored' = IF ok THEN stored \cup {a} ELSE stored
    /\ UNCHANGED <<selection, started, dataset_pc, written, runs>>
    /\ UnchangedOutside("pipeline")

\* lines 82-86 of video_games_dataset: data_merger.run merges and writes the
\* final file, or raises
MergeAndWrite ==
    /\ step["video_games_dataset"] = "running"
    /\ dataset_pc = "merge"
    /\ \E ok \in BOOLEAN :
          IF ok
          THEN /\ written' = TRUE
               /\ dataset_pc' = "validate"
               /\ UNCHANGED step
          ELSE /\ step' = [step EXCEPT !["video_games_dataset"] = "failed"]
               /\ dataset_pc' = ""
               /\ UNCHANGED written
    /\ UNCHANGED <<stored, selection, started, runs>>
    /\ UnchangedOutside("pipeline")

\* lines 90-112 of video_games_dataset: the validation passes and the asset
\* returns, or it raises
ValidateFinal ==
    /\ step["video_games_dataset"] = "running"
    /\ dataset_pc = "validate"
    /\ \E ok \in BOOLEAN :
          /\ step' = [step EXCEPT !["video_games_dataset"] =
                          IF ok THEN "succeeded" ELSE "failed"]
          /\ stored' = IF ok THEN stored \cup {"video_games_dataset"} ELSE stored
    /\ dataset_pc' = ""
    /\ UNCHANGED <<selection, started, written, runs>>
    /\ UnchangedOutside("pipeline")

\* every selected step has ended: the run is over
EndRun ==
    /\ selection # {}
    /\ \A a \in selection : step[a] \in {"succeeded", "failed", "skipped"}
    /\ selection' = {}
    /\ step' = [a \in AssetKeys |-> "pending"]
    /\ started' = [a \in AssetKeys |-> 0]
    /\ written' = FALSE
    /\ UNCHANGED <<stored, dataset_pc, runs>>
    /\ UnchangedOutside("pipeline")

NextPipeline ==
    \/ LaunchRun
    \/ \E a \in AssetKeys : StartStep(a)
    \/ \E a \in AssetKeys : SkipStep(a)
    \/ \E a \in AssetKeys : FinishStep(a)
    \/ MergeAndWrite
    \/ ValidateFinal
    \/ EndRun

SpecPipeline == InitPipeline /\ [][NextPipeline]_vars

\* the body of the asset's step has started in the current run
Started(a) == started[a] > 0

\* the output of a is there: produced by the current run when the run
\* materializes a, else stored by an earlier run
Completed(a) ==
    IF a \in selection THEN step[a] = "succeeded" ELSE a \in stored

\* the stages in the order of the data flow
StagesInOrder ==
    /\ Started("raw_steam_data") => Completed("raw_metacritic_data")
    /\ Started("cleaned_data") =>
           Completed("raw_metacritic_data") /\ Completed("raw_steam_data")
    /\ Started("video_games_dataset") => Completed("cleaned_data")
    /\ dataset_pc = "validate" => written

\* a step starts only if it is selected and has not started in this run
StartsOnce ==
    \A a \in AssetKeys :
        started'[a] > started[a] =>
            (a \in selection /\ started[a] = 0 /\ step[a] = "pending")

\* ------------------------------------------------------------------------
\* C19: in every run the stages go one way and at most once each: Steam
\* scraping starts only after Metacritic scraping has completed, cleaning
\* only after both scrapes, merging only after cleaning, validation only
\* after the merged file has been written, and no stage is started again
\* by a later one.
\* ------------------------------------------------------------------------
C19_OneWayStages ==
    /\ [](StagesInOrder /\ \A a \in AssetKeys : started[a] <= 1)
    /\ [][StartsOnce]_vars

\* a run of all four assets in which validation is running
C19_Witness ==
    /\ selection = AssetKeys
    /\ dataset_pc = "validate"
    /\ \A a \in AssetKeys : Started(a)

\* ========================================================================
\* DataMerger.string_similarity
\* ========================================================================

\* length of the strings string_similarity is called on
MaxSimLen == 3

SimInputs == StringsUpTo({"a", "A", "b"}, MaxSimLen) \cup {None}

InitSim ==
    /\ IdleOutside("fn")
    /\ arg \in SimInputs \X SimInputs
    /\ ret = None
    /\ called = FALSE

CallStringSimilarity ==
    /\ FnReturn(string_similarity(arg[1], arg[2]))
    /\ UnchangedOutside("fn")

NextSim == CallStringSimilarity

SpecSim == InitSim /\ [][NextSim]_vars

\* two characters that are the same letter in either case
SameLetter(c, d) == c = d \/ LowerChar(c) = d \/ LowerChar(d) = c

EqualUpToCase(a, b) ==
    /\ Len(a) = Len(b)
    /\ \A i \in 1..Len(a) : SameLetter(a[i], b[i])

\* ------------------------------------------------------------------------
\* C20: string_similarity(a, b) is 1.0 whenever a and b are non-empty
\* strings equal up to letter case, lies in [0, 1] for all strings, and is 0
\* when either argument is not a string.
\* ------------------------------------------------------------------------
C20_SimilarityBounds ==
    called =>
        LET a == arg[1]
            b == arg[2]
        IN  IF IsStr(a) /\ IsStr(b)
            THEN /\ (a # <<>> /\ EqualUpToCase(a, b)) => RatEq(ret, <<1, 1>>)
                 /\ ret[2] > 0
                 /\ 0 <= ret[1] /\ ret[1] <= ret[2]
            ELSE ret[1] = 0 /\ ret[2] > 0

\* the call on two strings that differ in letter case only has returned
C20_Witness ==
    /\ called
    /\ arg = << <<"a", "b", "A">>, <<"A", "b", "a">> >>
    /\ RatEq(ret, <<1, 1>>)

====
